---- MODULE Spec2Model ----
(***************************************************************************)
(* A model of the Shaya Sussman content-generator client SDK:              *)
(*   - ShayaContentClient (src/client/shaya-content-client.js and .ts):    *)
(*     the HTTP wrapper `request` and the convenience methods over it;     *)
(*   - useShayaContent (src/client/shaya-content-client.ts): the React     *)
(*     hook that tracks isLoading / error / content across calls.          *)
(*                                                                         *)
(* JavaScript strings are sequences of one-character strings, so that      *)
(* template literals, String(x) and "contains" are computed, not assumed.  *)
(***************************************************************************)
EXTENDS Integers, Sequences, FiniteSets, TLC

(***************************************************************************)
(* Bounds of the model.                                                    *)
(***************************************************************************)
\* Number of tracked calls one hook instance is asked to make in a run.
MaxCalls == 3

(***************************************************************************)
(* Strings.                                                                *)
(***************************************************************************)
DigitChars == <<"0", "1", "2", "3", "4", "5", "6", "7", "8", "9">>

RECURSIVE NatToString(_)
\* String(n) / `${n}` for a non-negative integer n.
NatToString(n) ==
    IF n < 10 THEN <<DigitChars[n + 1]>>
    ELSE NatToString(n \div 10) \o <<DigitChars[(n % 10) + 1]>>

\* s.includes(sub)
Contains(s, sub) ==
    \E i \in 1..(Len(s) - Len(sub) + 1) : SubSeq(s, i, i + Len(sub) - 1) = sub

\* Variant of StripTrailingSlash with the g-less regex made greedy,
\* s.replace(/\/+$/, ''): every trailing "/" is dropped.
StripTrailingSlash_All(s) ==
    LET n == CHOOSE k \in 0..Len(s) :
                 /\ (k = 0 \/ s[k] # "/")
                 /\ \A j \in (k + 1)..Len(s) : s[j] = "/"
    IN SubSeq(s, 1, n)

\* s.replace(/\/$/, ''): drops one trailing "/" when there is one.
StripTrailingSlash(s) ==
    IF Len(s) > 0 /\ s[Len(s)] = "/" THEN SubSeq(s, 1, Len(s) - 1) ELSE s

EmptyString == << >>
Str_UnknownError == <<"U","n","k","n","o","w","n"," ","e","r","r","o","r">>
Str_HTTP == <<"H","T","T","P"," ">>
Str_InvalidApiKey == <<"I","n","v","a","l","i","d"," ","A","P","I"," ","k","e","y">>
Str_Quota503 == <<"q","u","o","t","a"," ","5","0","3">>
Str_Zero == <<"0">>
Str_ObjectObject == <<"[","o","b","j","e","c","t"," ","O","b","j","e","c","t","]">>
Str_NullRead == <<"n","u","l","l"," ","h","a","s"," ","n","o"," ","p","r","o","p","e","r","t","i","e","s">>
Str_BadJson == <<"U","n","e","x","p","e","c","t","e","d"," ","t","o","k","e","n">>
Str_FailedToFetch == <<"F","a","i","l","e","d"," ","t","o"," ","f","e","t","c","h">>
Str_Boom == <<"b","o","o","m">>
Str_C1 == <<"c","1">>
Str_C2 == <<"c","2">>
Str_True == <<"t","r","u","e">>
Str_False == <<"f","a","l","s","e">>
Str_Null == <<"n","u","l","l">>
Str_Undefined == <<"u","n","d","e","f","i","n","e","d">>

(***************************************************************************)
(* JavaScript values.  A property value (Prim) is [t, s, n]: its type tag, *)
(* its string (for a string; for an array or nested object, what String()  *)
(* makes of it) and its number.  A value (Val) adds f, its properties: a   *)
(* property the object does not have reads as undefined, as in JS.         *)
(***************************************************************************)
FieldNames == {"content", "detail"}

PUndefined == [t |-> "undefined", s |-> EmptyString, n |-> 0]
PNull == [t |-> "null", s |-> EmptyString, n |-> 0]
PString(s) == [t |-> "string", s |-> s, n |-> 0]
PNumber(n) == [t |-> "number", s |-> EmptyString, n |-> n]
PBool(b) == [t |-> "boolean", s |-> EmptyString, n |-> IF b THEN 1 ELSE 0]
\* A nested array or object: s is what String() gives for it.
PNested(t, s) == [t |-> t, s |-> s, n |-> 0]

NoFields == [k \in FieldNames |-> PUndefined]

\* A property value standing on its own (returned, thrown, stored).
Lift(p) == [t |-> p.t, s |-> p.s, n |-> p.n, f |-> NoFields]
Undefined == Lift(PUndefined)
Null == Lift(PNull)

\* The object literal / parsed JSON object with the given properties.
Object(fields) ==
    [t |-> "object", s |-> Str_ObjectObject, n |-> 0,
     f |-> [k \in FieldNames |-> IF k \in DOMAIN fields THEN fields[k] ELSE PUndefined]]

\* v.name for a value that is neither null nor undefined (those throw).
Get(v, name) == v.f[name]

\* JS truthiness, as used by `a || b`.
Truthy(p) ==
    CASE p.t = "undefined" -> FALSE
      [] p.t = "null" -> FALSE
      [] p.t = "string" -> p.s # EmptyString
      [] p.t = "number" -> p.n # 0
      [] p.t = "boolean" -> p.n = 1
      [] OTHER -> TRUE

\* String(p)
ToStringJS(p) ==
    CASE p.t = "undefined" -> Str_Undefined
      [] p.t = "null" -> Str_Null
      [] p.t = "string" -> p.s
      [] p.t = "number" -> NatToString(p.n)
      [] p.t = "boolean" -> (IF p.n = 1 THEN Str_True ELSE Str_False)
      [] OTHER -> p.s

(***************************************************************************)
(* Thrown values.  isError: the value is an Error instance; id: the        *)
(* tracked call during which the object was created (0 outside the hook),  *)
(* which tells two Error objects with equal messages apart.                *)
(***************************************************************************)
NoError == [isError |-> FALSE, name |-> "none", message |-> EmptyString, id |-> 0]
\* new Error(message)
NewError(message) == [isError |-> TRUE, name |-> "Error", message |-> message, id |-> 0]
TypeError(message) == [isError |-> TRUE, name |-> "TypeError", message |-> message, id |-> 0]
SyntaxError(message) == [isError |-> TRUE, name |-> "SyntaxError", message |-> message, id |-> 0]
\* A thrown string primitive (a transport that rejects with a non-Error).
ThrownString(s) == [isError |-> FALSE, name |-> "string", message |-> s, id |-> 0]

\* The settlement of a promise.
Resolved(v) == [ok |-> TRUE, val |-> v, err |-> NoError]
Rejected(e) == [ok |-> FALSE, val |-> Undefined, err |-> e]

(***************************************************************************)
(* HTTP responses.  parses: response.json() succeeds, and then gives json. *)
(***************************************************************************)
HttpResponse(status, parses, json) == [status |-> status, parses |-> parses, json |-> json]

\* response.ok
ResponseOk(r) == r.status >= 200 /\ r.status <= 299

\* await response.json().catch(() => ({ detail: 'Unknown error' }))
ErrorBody(r) ==
    IF r.parses THEN r.json ELSE Object([detail |-> PString(Str_UnknownError)])

\* Variant of FailureMessage: the status line always, the detail never.
FailureMessage_StatusOnly(error, status) == Str_HTTP \o NatToString(status)

\* error.detail || `HTTP ${response.status}`, the argument of new Error(..)
FailureMessage(error, status) ==
    IF Truthy(Get(error, "detail"))
    THEN ToStringJS(Get(error, "detail"))
    ELSE Str_HTTP \o NatToString(status)

\* Variant of RequestSettle: a 2xx body is rebuilt from its content field,
\* so every other field of it is dropped.
RequestSettle_KeepsContentOnly(r) ==
    IF ~ResponseOk(r)
    THEN LET error == ErrorBody(r) IN
         IF error.t \in {"null", "undefined"}
         THEN Rejected(TypeError(Str_NullRead))
         ELSE Rejected(NewError(FailureMessage(error, r.status)))
    ELSE IF r.parses THEN Resolved(Object([content |-> Get(r.json, "content")]))
    ELSE Rejected(SyntaxError(Str_BadJson))

\* request(), from the point where fetch has resolved with response r.
RequestSettle(r) ==
    IF ~ResponseOk(r)
    THEN LET error == ErrorBody(r) IN
         IF error.t \in {"null", "undefined"}
         THEN Rejected(TypeError(Str_NullRead))
         ELSE Rejected(NewError(FailureMessage(error, r.status)))
    ELSE IF r.parses THEN Resolved(r.json) ELSE Rejected(SyntaxError(Str_BadJson))

(***************************************************************************)
(* The Request Client: ShayaContentClient, in its JS and its TS variant.   *)
(***************************************************************************)
Str_BaseUrl == <<"h","t","t","p","s",":","/","/","x">>
Str_AppJson == <<"a","p","p","l","i","c","a","t","i","o","n","/","j","s","o","n">>
Str_TextPlain == <<"t","e","x","t","/","p","l","a","i","n">>
Str_Key == <<"k","1">>
Str_CallerKey == <<"c","a","l","l","e","r">>
Str_Topic == <<"p","e","a","c","e">>
Str_Ctx == <<"c","t","x">>
Str_Article == <<"a","r","t","i","c","l","e">>
Str_SocialMedia == <<"s","o","c","i","a","l","_","m","e","d","i","a">>
Str_ClassOutline == <<"c","l","a","s","s","_","o","u","t","l","i","n","e">>
Str_ShortReflection == <<"s","h","o","r","t","_","r","e","f","l","e","c","t","i","o","n">>
Path_Root == <<"/">>
Path_Health == <<"/","h","e","a","l","t","h">>
Path_VoiceProfile == <<"/","v","o","i","c","e","-","p","r","o","f","i","l","e">>
Path_Formats == <<"/","f","o","r","m","a","t","s">>
Path_SystemPrompt == <<"/","s","y","s","t","e","m","-","p","r","o","m","p","t">>
Path_Generate == <<"/","g","e","n","e","r","a","t","e">>

Variants == {"js", "ts"}

\* constructor(baseUrl, apiKey): the JS variant's parameter default is null.
NewClient(variant, baseUrl, apiKey) ==
    [variant |-> variant,
     baseUrl |-> StripTrailingSlash(baseUrl),
     apiKey |-> IF variant = "js" /\ apiKey.t = "undefined" THEN PNull ELSE apiKey]

HeaderNames == {"Content-Type", "X-API-Key"}
\* An absent header is PUndefined.
NoHeaders == [h \in HeaderNames |-> PUndefined]

\* A request body: JSON.stringify of the object literal of generate; a key
\* whose value is undefined is left out by JSON.stringify (PUndefined here).
NoBody ==
    [present |-> FALSE, topic |-> PUndefined, format |-> PUndefined,
     additional_context |-> PUndefined, prompt_only |-> PUndefined]

\* options = {} and the options a GET wrapper passes (none).
NoOptions == [method |-> "default", headers |-> NoHeaders, body |-> NoBody]

\* Variant of RequestHeaders: the credential is set before the spread, so a
\* caller-supplied X-API-Key overrides it.
RequestHeaders_CallerFirst(cl, options) ==
    [h \in HeaderNames |->
        IF options.headers[h].t # "undefined" THEN options.headers[h]
        ELSE IF h = "Content-Type" THEN PString(Str_AppJson)
        ELSE IF Truthy(cl.apiKey) THEN cl.apiKey
        ELSE PUndefined]

\* Variant of RequestHeaders: the test is `this.apiKey !== undefined`, so a
\* null or empty credential is sent as a header too.
RequestHeaders_KeyUnlessUndefined(cl, options) ==
    LET spread == [h \in HeaderNames |->
                     IF options.headers[h].t # "undefined" THEN options.headers[h]
                     ELSE IF h = "Content-Type" THEN PString(Str_AppJson)
                     ELSE PUndefined]
    IN IF cl.apiKey.t # "undefined" THEN [spread EXCEPT !["X-API-Key"] = cl.apiKey] ELSE spread

\* const headers = {'Content-Type': 'application/json', ...options.headers};
\* if (this.apiKey) headers['X-API-Key'] = this.apiKey;
RequestHeaders(cl, options) ==
    LET spread == [h \in HeaderNames |->
                     IF options.headers[h].t # "undefined" THEN options.headers[h]
                     ELSE IF h = "Content-Type" THEN PString(Str_AppJson)
                     ELSE PUndefined]
    IN IF Truthy(cl.apiKey) THEN [spread EXCEPT !["X-API-Key"] = cl.apiKey] ELSE spread

\* fetch(`${this.baseUrl}${endpoint}`, {...options, headers})
Dispatch(cl, endpoint, options) ==
    [url |-> cl.baseUrl \o endpoint,
     method |-> IF options.method = "default" THEN "GET" ELSE options.method,
     headers |-> RequestHeaders(cl, options),
     body |-> options.body]

\* The options generate() passes to request(): parameter defaults apply to
\* undefined only; the TS variant normalises the context with `|| ''`.
GenerateOptions(cl, topic, format, additionalContext, promptOnly) ==
    [method |-> "POST",
     headers |-> NoHeaders,
     body |-> [present |-> TRUE,
               topic |-> topic,
               format |-> IF format.t = "undefined" THEN PString(Str_Article) ELSE format,
               additional_context |->
                   IF cl.variant = "js"
                   THEN (IF additionalContext.t = "undefined"
                         THEN PString(EmptyString) ELSE additionalContext)
                   ELSE (IF Truthy(additionalContext)
                         THEN additionalContext ELSE PString(EmptyString)),
               prompt_only |-> IF promptOnly.t = "undefined" THEN PBool(FALSE) ELSE promptOnly]]

\* The context a format shorthand hands to generate (JS: context = '').
ShorthandContext(cl, context) ==
    IF cl.variant = "js" /\ context.t = "undefined" THEN PString(EmptyString) ELSE context

Methods ==
    {"request", "getInfo", "health", "getVoiceProfile", "getFormats", "getSystemPrompt",
     "generate", "generateArticle", "generateSocialPost", "generateClassOutline",
     "generateReflection", "getPrompt"}

\* The methods that return response.content instead of the response.
Projecting ==
    {"generateArticle", "generateSocialPost", "generateClassOutline",
     "generateReflection", "getPrompt"}

\* What a method asks of request(): the endpoint and the options.
\* a: [endpoint, options, topic, format, context, promptOnly].
Plan(cl, method, a) ==
    CASE method = "request" -> [endpoint |-> a.endpoint, options |-> a.options]
      [] method = "getInfo" -> [endpoint |-> Path_Root, options |-> NoOptions]
      [] method = "health" -> [endpoint |-> Path_Health, options |-> NoOptions]
      [] method = "getVoiceProfile" -> [endpoint |-> Path_VoiceProfile, options |-> NoOptions]
      [] method = "getFormats" -> [endpoint |-> Path_Formats, options |-> NoOptions]
      [] method = "getSystemPrompt" -> [endpoint |-> Path_SystemPrompt, options |-> NoOptions]
      [] method = "generate" ->
           [endpoint |-> Path_Generate,
            options |-> GenerateOptions(cl, a.topic, a.format, a.context, a.promptOnly)]
      [] method = "generateArticle" ->
           [endpoint |-> Path_Generate,
            options |-> GenerateOptions(cl, a.topic, PString(Str_Article),
                                        ShorthandContext(cl, a.context), PUndefined)]
      [] method = "generateSocialPost" ->
           [endpoint |-> Path_Generate,
            options |-> GenerateOptions(cl, a.topic, PString(Str_SocialMedia),
                                        ShorthandContext(cl, a.context), PUndefined)]
      [] method = "generateClassOutline" ->
           [endpoint |-> Path_Generate,
            options |-> GenerateOptions(cl, a.topic, PString(Str_ClassOutline),
                                        ShorthandContext(cl, a.context), PUndefined)]
      [] method = "generateReflection" ->
           [endpoint |-> Path_Generate,
            options |-> GenerateOptions(cl, a.topic, PString(Str_ShortReflection),
                                        ShorthandContext(cl, a.context), PUndefined)]
      [] method = "getPrompt" ->
           [endpoint |-> Path_Generate,
            options |-> GenerateOptions(cl, a.topic, a.format,
                                        ShorthandContext(cl, a.context), PBool(TRUE))]

\* The fetch request a method dispatches.
Sent(cl, method, a) == Dispatch(cl, Plan(cl, method, a).endpoint, Plan(cl, method, a).options)

\* What fetch does: it resolves with a response or rejects (transport).
FetchResolved(r) == [resolved |-> TRUE, resp |-> r, err |-> NoError]
\* There is no response when fetch rejects.
NoResponse == HttpResponse(0, FALSE, Undefined)
FetchRejected(e) == [resolved |-> FALSE, resp |-> NoResponse, err |-> e]

\* request(): a rejection of fetch is not caught.
Request(fetched) ==
    IF fetched.resolved THEN RequestSettle(fetched.resp) ELSE Rejected(fetched.err)

\* const response = await this.generate(..); return response.content;
ProjectContent(settled) ==
    IF ~settled.ok THEN settled
    ELSE IF settled.val.t \in {"null", "undefined"} THEN Rejected(TypeError(Str_NullRead))
    ELSE Resolved(Lift(Get(settled.val, "content")))

\* Variant of MethodSettle: a shorthand returns the response itself, not
\* its content field.
MethodSettle_ReturnsResponse(method, fetched) == Request(fetched)

\* The settlement of a method of the client, given what fetch did.
MethodSettle(method, fetched) ==
    IF method \in Projecting THEN ProjectContent(Request(fetched)) ELSE Request(fetched)

(***************************************************************************)
(* The state.                                                              *)
(*   isLoading, error, content : the three useState cells of the hook      *)
(*                       (error = NoError and content = PNull model null). *)
(*   pc, kind          : per tracked call, where it is and, while it is in *)
(*                       flight, which wrapper runs.                       *)
(*   last              : the tracked call that settled latest: how its     *)
(*                       Request Client call settled (under) and what the  *)
(*                       hook gave its caller (ret).                       *)
(*   lastOp            : history: the operation that ran latest.           *)
(*   atStart, cleared  : history: the calls in flight right after the      *)
(*                       latest call start, and whether clearError or      *)
(*                       clearContent ran since.                           *)
(*   client            : the ShayaContentClient in use.                    *)
(*   rq                : a call made on the client directly.               *)
(***************************************************************************)
VARIABLES isLoading, error, content, pc, kind, last, lastOp, atStart, cleared, client, rq

hookVars == <<isLoading, error, content, pc, kind, last, lastOp, atStart, cleared>>
clientVars == <<client, rq>>
vars == <<isLoading, error, content, pc, kind, last, lastOp, atStart, cleared, client, rq>>

Calls == 1..MaxCalls

\* A promise that has not settled.
Pending == [ok |-> FALSE, val |-> Undefined, err |-> NoError]

(***************************************************************************)
(* The Lifecycle Adapter: useShayaContent.                                 *)
(***************************************************************************)
Kinds ==
    {"generate", "generateArticle", "generateSocialPost", "generateClassOutline",
     "generateReflection", "getPrompt", "getVoiceProfile", "getFormats"}

\* The shorthands built on the hook's generate.
HookShorthands ==
    {"generateArticle", "generateSocialPost", "generateClassOutline", "generateReflection"}

\* The wrappers whose try block stores response.content.
ContentBearing == HookShorthands \cup {"generate", "getPrompt"}

\* The method of the client a tracked wrapper awaits.
ClientMethodOf(k) ==
    IF k \in ContentBearing THEN "generate" ELSE k

\* The hook's three cells as one value.
HookState == [isLoading |-> isLoading, error |-> error, content |-> content]

\* useState(false), useState(null), useState(null)
InitialHookState == [isLoading |-> FALSE, error |-> NoError, content |-> PNull]

\* Variant of StateOnBegin with a plausible slip: setError(null) is missing.
StateOnBegin_KeepsError(st) == [st EXCEPT !.isLoading = TRUE]

\* setIsLoading(true); setError(null);
StateOnBegin(st) == [st EXCEPT !.isLoading = TRUE, !.error = NoError]

\* The Error object allocated while tracked call c runs.
Tag(e, c) == [e EXCEPT !.id = c]

\* err instanceof Error ? err : new Error(String(err))
NormalizeError(err, c) ==
    IF err.isError THEN err ELSE Tag(NewError(err.message), c)

\* How the awaited client call of tracked call c settles.
UnderSettle(c, k, fetched) ==
    LET u == MethodSettle(ClientMethodOf(k), fetched)
    IN IF u.ok THEN u ELSE Rejected(Tag(u.err, c))

\* The try block: what it stores into content and how it ends.  Reading
\* .content of a null response throws inside the try.
TryBlock(c, k, u) ==
    IF ~u.ok THEN [stores |-> FALSE, content |-> PUndefined, end |-> u]
    ELSE IF k \notin ContentBearing
    THEN [stores |-> FALSE, content |-> PUndefined, end |-> u]
    ELSE IF u.val.t \in {"null", "undefined"}
    THEN [stores |-> FALSE, content |-> PUndefined,
          end |-> Rejected(Tag(TypeError(Str_NullRead), c))]
    ELSE [stores |-> TRUE, content |-> Get(u.val, "content"),
          end |-> IF k = "getPrompt" THEN Resolved(Lift(Get(u.val, "content"))) ELSE u]

\* The catch block: the error it stores and rethrows.
CaughtError(c, k, u) == NormalizeError(TryBlock(c, k, u).end.err, c)

\* Variant of StateOnSettle: setIsLoading(false) at the end of the try block
\* instead of in a finally, so a failure leaves isLoading set.
StateOnSettle_NoFinally(st, c, k, u) ==
    LET t == TryBlock(c, k, u)
    IN [isLoading |-> IF t.end.ok THEN FALSE ELSE st.isLoading,
        error |-> IF t.end.ok THEN st.error ELSE CaughtError(c, k, u),
        content |-> IF t.stores THEN t.content ELSE st.content]

\* Variant of StateOnSettle: the catch block also resets the content.
StateOnSettle_FailureDropsContent(st, c, k, u) ==
    LET t == TryBlock(c, k, u)
    IN [isLoading |-> FALSE,
        error |-> IF t.end.ok THEN st.error ELSE CaughtError(c, k, u),
        content |-> IF t.stores THEN t.content ELSE IF t.end.ok THEN st.content ELSE PNull]

\* Variant of StateOnSettle: a success also clears the error, so that the
\* call that settles last decides the error.
StateOnSettle_SuccessClearsError(st, c, k, u) ==
    LET t == TryBlock(c, k, u)
    IN [isLoading |-> FALSE,
        error |-> IF t.end.ok THEN NoError ELSE CaughtError(c, k, u),
        content |-> IF t.stores THEN t.content ELSE st.content]

\* Variant of StateOnSettle: setIsLoading(false) in the catch block instead
\* of in a finally, so a success leaves isLoading set.
StateOnSettle_LoadingOffInCatch(st, c, k, u) ==
    LET t == TryBlock(c, k, u)
    IN [isLoading |-> IF t.end.ok THEN st.isLoading ELSE FALSE,
        error |-> IF t.end.ok THEN st.error ELSE CaughtError(c, k, u),
        content |-> IF t.stores THEN t.content ELSE st.content]

\* try / catch / finally of a tracked wrapper, applied to the cells.
StateOnSettle(st, c, k, u) ==
    LET t == TryBlock(c, k, u)
    IN [isLoading |-> FALSE,
        error |-> IF t.end.ok THEN st.error ELSE CaughtError(c, k, u),
        content |-> IF t.stores THEN t.content ELSE st.content]

\* Variant of ReturnToCaller: the catch block records the error and does
\* not rethrow it.
ReturnToCaller_Swallows(c, k, u) ==
    LET t == TryBlock(c, k, u)
        inner == IF t.end.ok THEN t.end ELSE Resolved(Undefined)
    IN IF k \in HookShorthands THEN ProjectContent(inner) ELSE inner

\* What the wrapper gives its caller: the try block's return value, or the
\* rethrown error; a shorthand then returns response.content.
ReturnToCaller(c, k, u) ==
    LET t == TryBlock(c, k, u)
        inner == IF t.end.ok THEN t.end ELSE Rejected(CaughtError(c, k, u))
    IN IF k \in HookShorthands THEN ProjectContent(inner) ELSE inner

\* Variant of StateOnClearError: it resets the content as well.
StateOnClearError_ResetsAll(st) == [st EXCEPT !.error = NoError, !.content = PNull]

\* setError(null)
StateOnClearError(st) == [st EXCEPT !.error = NoError]

\* setContent(null)
StateOnClearContent(st) == [st EXCEPT !.content = PNull]

(***************************************************************************)
(* The network, as the hook's runs see it.                                 *)
(***************************************************************************)
ContentResponse(s) == HttpResponse(200, TRUE, Object([content |-> PString(s)]))

HookResponses ==
    {ContentResponse(Str_C1),
     ContentResponse(Str_C2),
     HttpResponse(200, TRUE, Null),
     HttpResponse(401, TRUE, Object([detail |-> PString(Str_InvalidApiKey)]))}

\* What a failing transport rejects with.
TransportFailures == {TypeError(Str_FailedToFetch), ThrownString(Str_Boom)}

\* No call on the client is under way.
RqReady == [pc |-> "ready", method |-> "none", args |-> "none", sent |-> "none",
            fetched |-> "none", settled |-> "none"]

\* The options of the sample component: a base URL and no API key.
HookClient == NewClient("ts", Str_BaseUrl \o <<"/">>, PUndefined)

Init ==
    /\ isLoading = InitialHookState.isLoading
    /\ error = InitialHookState.error
    /\ content = InitialHookState.content
    /\ pc = [c \in Calls |-> "idle"]
    /\ kind = [c \in Calls |-> "none"]
    /\ last = [call |-> 0, kind |-> "none", under |-> Pending, ret |-> Pending]
    /\ lastOp = "none"
    /\ atStart = {}
    /\ cleared = FALSE
    /\ client = HookClient
    /\ rq = RqReady

\* A tracked wrapper k is called (the c-th call of the run) and runs up to
\* its await.
Begin(c, k) ==
    /\ pc[c] = "idle"
    /\ c > 1 => pc[c - 1] # "idle"
    /\ LET st == StateOnBegin(HookState) IN
          /\ isLoading' = st.isLoading
          /\ error' = st.error
          /\ content' = st.content
    /\ pc' = [pc EXCEPT ![c] = "inflight"]
    /\ kind' = [kind EXCEPT ![c] = k]
    /\ lastOp' = "begin"
    /\ atStart' = {d \in Calls : pc'[d] = "inflight"}
    /\ cleared' = FALSE
    /\ UNCHANGED <<last, client, rq>>

\* Tracked call c resumes after its await, fetch having settled as `fetched`,
\* and runs to its end.
Resume(c, fetched) ==
    /\ pc[c] = "inflight"
    /\ LET u == UnderSettle(c, kind[c], fetched)
           st == StateOnSettle(HookState, c, kind[c], u)
           r == ReturnToCaller(c, kind[c], u)
       IN /\ isLoading' = st.isLoading
          /\ error' = st.error
          /\ content' = st.content
          /\ last' = [call |-> c, kind |-> kind[c], under |-> u, ret |-> r]
          /\ pc' = [pc EXCEPT ![c] = IF r.ok THEN "resolved" ELSE "rejected"]
    /\ kind' = [kind EXCEPT ![c] = "none"]
    /\ lastOp' = "settle"
    /\ UNCHANGED <<atStart, cleared, client, rq>>

\* The server answers tracked call c.
Respond(c) == \E r \in HookResponses : Resume(c, FetchResolved(r))

\* The transport of tracked call c fails.
TransportFail(c) == \E e \in TransportFailures : Resume(c, FetchRejected(e))

clearError ==
    /\ LET st == StateOnClearError(HookState) IN
          /\ isLoading' = st.isLoading
          /\ error' = st.error
          /\ content' = st.content
    /\ lastOp' = "clearError"
    /\ cleared' = TRUE
    /\ UNCHANGED <<pc, kind, last, atStart, client, rq>>

clearContent ==
    /\ LET st == StateOnClearContent(HookState) IN
          /\ isLoading' = st.isLoading
          /\ error' = st.error
          /\ content' = st.content
    /\ lastOp' = "clearContent"
    /\ cleared' = TRUE
    /\ UNCHANGED <<pc, kind, last, atStart, client, rq>>

Next ==
    \/ \E c \in Calls, k \in Kinds : Begin(c, k)
    \/ \E c \in Calls : Respond(c)
    \/ \E c \in Calls : TransportFail(c)
    \/ clearError
    \/ clearContent

Spec == Init /\ [][Next]_vars

(***************************************************************************)
(* The Request Client on its own: clients of both variants, every method,  *)
(* and the answers a server or a transport can give.                       *)
(***************************************************************************)
BaseUrls == {Str_BaseUrl, Str_BaseUrl \o <<"/">>, Str_BaseUrl \o <<"/", "/">>}
ApiKeys == {PUndefined, PNull, PString(EmptyString), PString(Str_Key)}
Clients == {NewClient(v, b, k) : v \in Variants, b \in BaseUrls, k \in ApiKeys}

DefaultArgs ==
    [endpoint |-> Path_Health, options |-> NoOptions, topic |-> PString(Str_Topic),
     format |-> PUndefined, context |-> PUndefined, promptOnly |-> PUndefined]

Contexts == {PUndefined, PNull, PString(EmptyString), PString(Str_Ctx)}
FormatArgs == {PUndefined, PString(Str_SocialMedia)}
PromptOnlyArgs == {PUndefined, PBool(TRUE), PBool(FALSE)}
CallerOptions ==
    {NoOptions,
     [NoOptions EXCEPT !.headers = [NoHeaders EXCEPT !["X-API-Key"] = PString(Str_CallerKey)]],
     [NoOptions EXCEPT !.headers = [NoHeaders EXCEPT !["Content-Type"] = PString(Str_TextPlain)]]}

\* The arguments a method is called with: only those it reads vary.
ArgsOf(m) ==
    CASE m = "request" ->
           {[DefaultArgs EXCEPT !.endpoint = e, !.options = o] :
               e \in {Path_Health, Path_Generate}, o \in CallerOptions}
      [] m = "generate" ->
           {[DefaultArgs EXCEPT !.format = f, !.context = x, !.promptOnly = q] :
               f \in FormatArgs, x \in Contexts, q \in PromptOnlyArgs}
      [] m = "getPrompt" ->
           {[DefaultArgs EXCEPT !.format = f, !.context = x] :
               f \in FormatArgs, x \in Contexts}
      [] m \in Projecting \ {"getPrompt"} ->
           {[DefaultArgs EXCEPT !.context = x] : x \in Contexts}
      [] OTHER -> {DefaultArgs}

Statuses == {200, 401, 503}

\* Response bodies: parsed JSON values, and one that does not parse.
JsonBodies ==
    {Null,
     Object(<< >>),
     Object([detail |-> PString(EmptyString)]),
     Object([detail |-> PString(Str_InvalidApiKey)]),
     Object([detail |-> PString(Str_Quota503)]),
     Object([detail |-> PString(Str_Zero)]),
     Object([detail |-> PNumber(0)]),
     Object([detail |-> PNested("array", Str_ObjectObject)]),
     Object([content |-> PString(Str_C1)])}

Responses ==
    {HttpResponse(st, TRUE, j) : st \in Statuses, j \in JsonBodies}
        \cup {HttpResponse(st, FALSE, Undefined) : st \in Statuses}

InitClient ==
    /\ isLoading = InitialHookState.isLoading
    /\ error = InitialHookState.error
    /\ content = InitialHookState.content
    /\ pc = [c \in Calls |-> "idle"]
    /\ kind = [c \in Calls |-> "none"]
    /\ last = [call |-> 0, kind |-> "none", under |-> Pending, ret |-> Pending]
    /\ lastOp = "none"
    /\ atStart = {}
    /\ cleared = FALSE
    /\ client \in Clients
    /\ rq = RqReady

\* A method of the client is called and runs up to the await of fetch.
ClientInvoke(m, a) ==
    /\ rq.pc = "ready"
    /\ rq' = [pc |-> "awaiting", method |-> m, args |-> a, sent |-> Sent(client, m, a),
              fetched |-> "none", settled |-> "none"]
    /\ UNCHANGED <<hookVars, client>>

\* fetch has settled; the method runs to its end.  The record of what fetch
\* did is built anew for each state, from its three parts.
ClientResume(fetched) ==
    /\ rq.pc = "awaiting"
    /\ rq' = [rq EXCEPT !.pc = "settled",
                        !.fetched = [resolved |-> fetched.resolved,
                                     resp |-> fetched.resp,
                                     err |-> fetched.err],
                        !.settled = MethodSettle(rq.method, fetched)]
    /\ UNCHANGED <<hookVars, client>>

ClientFetchResolves == \E r \in Responses : ClientResume(FetchResolved(r))

ClientFetchRejects == \E e \in TransportFailures : ClientResume(FetchRejected(e))

\* The caller has the settlement; the client is ready for the next call.
ClientReturn ==
    /\ rq.pc = "settled"
    /\ rq' = RqReady
    /\ UNCHANGED <<hookVars, client>>

NextClient ==
    \/ \E m \in Methods : \E a \in ArgsOf(m) : ClientInvoke(m, a)
    \/ ClientFetchResolves
    \/ ClientFetchRejects
    \/ ClientReturn

SpecClient == InitClient /\ [][NextClient]_vars

(***************************************************************************)
(* The claims about the Lifecycle Adapter.                                 *)
(***************************************************************************)
InFlight == {c \in Calls : pc[c] = "inflight"}
Settled(c) == pc[c] \in {"resolved", "rejected"}

\* The tracked call that settled latest failed / succeeded.
LastFailed == last.call # 0 /\ ~last.ret.ok
LastSucceeded == last.call # 0 /\ last.ret.ok

\* C1: isLoading is true if and only if at least one tracked call has
\* started and has not yet settled, overlapping calls included.
C1_LoadingIffInFlight == isLoading <=> (InFlight # {})

\* C2: right after a tracked call is invoked, before its network call
\* settles, isLoading is true and error is null, whatever the state before.
C2_BeginSetsLoadingClearsError ==
    lastOp = "begin" => (isLoading /\ error = NoError)

\* C2 witness: a call was begun after an earlier call had failed.
C2_Witness ==
    /\ lastOp = "begin"
    /\ LastFailed
    /\ Cardinality(InFlight) = 1
    /\ isLoading
    /\ error = NoError

\* C3: after a tracked call whose Request Client call rejects has settled,
\* with no other call in flight, isLoading is false and error is non-null.
C3_FailureState ==
    (lastOp = "settle" /\ ~last.under.ok /\ InFlight = {})
        => (~isLoading /\ error # NoError)

\* C3 witness: a getVoiceProfile call has just failed, nothing in flight.
C3_Witness ==
    /\ lastOp = "settle"
    /\ last.kind = "getVoiceProfile"
    /\ ~last.under.ok
    /\ InFlight = {}
    /\ ~isLoading
    /\ error # NoError

\* C4: a tracked call whose Request Client call rejects rejects to its
\* caller, with the very failure that is stored in the error cell.
C4_FailureReRaised ==
    (lastOp = "settle" /\ ~last.under.ok)
        => (~last.ret.ok /\ last.ret.err = error /\ error.isError)

\* C4 witness: a format shorthand has just failed on a thrown non-Error,
\* and its caller got the Error the hook made of it.
C4_Witness ==
    /\ lastOp = "settle"
    /\ last.kind \in HookShorthands
    /\ ~last.under.ok
    /\ ~last.under.err.isError
    /\ ~last.ret.ok
    /\ last.ret.err = error

\* C5: neither the start nor the failing end of a tracked call changes the
\* content cell, so content stored earlier is still there after a failure.
C5_FailureKeepsContent ==
    [][(lastOp' = "begin" \/ (lastOp' = "settle" /\ ~last'.ret.ok))
          => content' = content]_vars

\* C5 witness: a call has just failed and content of an earlier success is
\* still stored.
C5_Witness ==
    /\ lastOp = "settle"
    /\ LastFailed
    /\ content.t = "string"

\* C6: after a tracked generate or getPrompt succeeds with no other call in
\* flight, isLoading is false, error is null, content is the content field
\* of the client's result, and the caller has the result (for getPrompt,
\* its content).
C6_SuccessState ==
    (lastOp = "settle" /\ LastSucceeded /\ last.kind \in {"generate", "getPrompt"}
       /\ InFlight = {})
        => /\ ~isLoading
           /\ error = NoError
           /\ content = Get(last.under.val, "content")
           /\ last.ret = IF last.kind = "generate" THEN last.under
                         ELSE Resolved(Lift(Get(last.under.val, "content")))

\* C7: clearError() sets error to null and leaves content and isLoading,
\* clearContent() sets content to null and leaves error and isLoading, in
\* any state, a call being in flight or not.
C7_ClearsAreIndependent ==
    [][/\ lastOp' = "clearError" =>
             (error' = NoError /\ content' = content /\ isLoading' = isLoading)
       /\ lastOp' = "clearContent" =>
             (content' = PNull /\ error' = error /\ isLoading' = isLoading)]_vars

\* C7 witness: clearError ran while a call was in flight and after another
\* one had failed; the content of an earlier success is still stored.
C7_Witness ==
    /\ lastOp = "clearError"
    /\ InFlight # {}
    /\ LastFailed
    /\ content.t = "string"
    /\ error = NoError

\* Two calls overlapped (the later was begun while the earlier was in
\* flight), both have settled, and nothing else ran since the later began.
OverlappedPairSettled ==
    /\ Cardinality(atStart) = 2
    /\ \A c \in atStart : Settled(c)
    /\ lastOp = "settle"
    /\ ~cleared

\* The call of the overlapped pair that did not settle last.
OtherOfPair == CHOOSE c \in atStart : c # last.call

SettledOnHttpFailure ==
    /\ rq.pc = "settled"
    /\ rq.fetched.resolved
    /\ ~ResponseOk(rq.fetched.resp)

\* The response's JSON body has a non-empty string as its detail.
HasStringDetail(r) ==
    /\ r.parses
    /\ r.json.t = "object"
    /\ Get(r.json, "detail").t = "string"
    /\ Get(r.json, "detail").s # EmptyString

\* C9: on a non-2xx response whose JSON body has a non-empty string detail
\* D, request and every wrapper reject with an Error whose message is D.
C9_DetailIsMessage ==
    (SettledOnHttpFailure /\ HasStringDetail(rq.fetched.resp))
        => /\ ~rq.settled.ok
           /\ rq.settled.err.isError
           /\ rq.settled.err.message = Get(rq.fetched.resp.json, "detail").s

\* C9 witness: generateArticle got 401 {"detail": "Invalid API key"}.
C9_Witness ==
    /\ SettledOnHttpFailure
    /\ rq.method = "generateArticle"
    /\ rq.fetched.resp.status = 401
    /\ HasStringDetail(rq.fetched.resp)
    /\ rq.settled.err.message = Str_InvalidApiKey

\* C10: on a non-2xx response whose body does not parse as JSON, request
\* rejects with a failure whose message contains the status code.
C10_UnparsableHasStatus ==
    (SettledOnHttpFailure /\ ~rq.fetched.resp.parses)
        => /\ ~rq.settled.ok
           /\ Contains(rq.settled.err.message, NatToString(rq.fetched.resp.status))

\* The response's body parses as JSON and has no detail, or an empty one.
HasNoDetail(r) ==
    /\ r.parses
    /\ \/ Get(r.json, "detail").t \in {"undefined", "null"}
       \/ Get(r.json, "detail") = PString(EmptyString)

\* C11: on a non-2xx response whose JSON body has no detail field or an
\* empty detail, the method rejects with a failure whose message contains
\* the status code; the message is the server's detail only when the detail
\* is present and non-empty.
C11_NoDetailHasStatus ==
    SettledOnHttpFailure =>
        /\ HasNoDetail(rq.fetched.resp) =>
              /\ ~rq.settled.ok
              /\ Contains(rq.settled.err.message, NatToString(rq.fetched.resp.status))
        /\ (rq.fetched.resp.parses
              /\ rq.settled.err.message = ToStringJS(Get(rq.fetched.resp.json, "detail")))
              => ~HasNoDetail(rq.fetched.resp)

\* A call of method m on the client is under way or has just settled.
Called(m) == rq.pc # "ready" /\ rq.method = m

\* C12: in both variants, the body generate sends to POST /generate is
\* {topic, format, additional_context, prompt_only: promptOnly}, where
\* additional_context is the additionalContext given, and the empty string
\* when it is absent (undefined or null); it is never null or undefined.
C12_GenerateBody ==
    Called("generate") =>
        /\ rq.sent.method = "POST"
        /\ rq.sent.url = client.baseUrl \o Path_Generate
        /\ rq.sent.body.present
        /\ rq.sent.body.topic = rq.args.topic
        /\ rq.sent.body.format =
              (IF rq.args.format.t = "undefined" THEN PString(Str_Article) ELSE rq.args.format)
        /\ rq.sent.body.prompt_only =
              (IF rq.args.promptOnly.t = "undefined" THEN PBool(FALSE) ELSE rq.args.promptOnly)
        /\ rq.sent.body.additional_context =
              (IF rq.args.context.t \in {"undefined", "null"}
               THEN PString(EmptyString) ELSE rq.args.context)
        /\ rq.sent.body.additional_context.t \notin {"undefined", "null"}

\* C13: in request, a header the caller supplies in options.headers is the
\* value sent under that name, for both headers the client sets by default,
\* Content-Type and X-API-Key.
C13_CallerHeadersWin ==
    Called("request") =>
        \A h \in HeaderNames :
            rq.args.options.headers[h].t # "undefined"
                => rq.sent.headers[h] = rq.args.options.headers[h]

\* C13 as amended: a caller-supplied Content-Type is the value sent; a
\* caller-supplied X-API-Key is the value sent only when the client has no
\* credential, for a configured credential is written after the caller's
\* headers and replaces it.
C13_CallerWinsButCredential ==
    Called("request") =>
        /\ rq.args.options.headers["Content-Type"].t # "undefined"
              => rq.sent.headers["Content-Type"] = rq.args.options.headers["Content-Type"]
        /\ (rq.args.options.headers["X-API-Key"].t # "undefined" /\ ~Truthy(client.apiKey))
              => rq.sent.headers["X-API-Key"] = rq.args.options.headers["X-API-Key"]
        /\ Truthy(client.apiKey) => rq.sent.headers["X-API-Key"] = client.apiKey

\* C13 witness: request was called with its own X-API-Key on a client that
\* has a credential, and the credential was sent.
C13_Witness ==
    /\ Called("request")
    /\ client.apiKey = PString(Str_Key)
    /\ rq.args.options.headers["X-API-Key"] = PString(Str_CallerKey)
    /\ rq.sent.headers["X-API-Key"] = PString(Str_Key)

\* A credential was given at construction: a non-empty string.
CredentialGiven(cl) == cl.apiKey.t = "string" /\ cl.apiKey.s # EmptyString

\* C14: the request of every convenience operation carries Content-Type:
\* application/json, and carries X-API-Key, with the configured credential
\* as its value, if and only if a credential was given at construction.
C14_ConvenienceHeaders ==
    (rq.pc # "ready" /\ rq.method # "request") =>
        /\ rq.sent.headers["Content-Type"] = PString(Str_AppJson)
        /\ CredentialGiven(client) => rq.sent.headers["X-API-Key"] = client.apiKey
        /\ ~CredentialGiven(client) => rq.sent.headers["X-API-Key"] = PUndefined

\* C14 witness: generate was called on a client that has a credential, and
\* the credential was sent along with the content type.
C14_Witness ==
    /\ Called("generate")
    /\ CredentialGiven(client)
    /\ rq.sent.headers["X-API-Key"] = PString(Str_Key)
    /\ rq.sent.headers["Content-Type"] = PString(Str_AppJson)

\* A method of the client has settled on a 2xx response whose body parses.
SettledOnJsonSuccess ==
    /\ rq.pc = "settled"
    /\ rq.fetched.resolved
    /\ ResponseOk(rq.fetched.resp)
    /\ rq.fetched.resp.parses

\* C15: on a 2xx response with a valid JSON body, request, generate and the
\* other methods that return the response resolve with exactly the parsed
\* value: nothing added, dropped or renamed.
C15_SuccessIsParsedJson ==
    (SettledOnJsonSuccess /\ rq.method \notin Projecting)
        => rq.settled = Resolved(rq.fetched.resp.json)

\* C15 witness: generate got 200 with a body that has a detail field and no
\* content, and resolved with that very object.
C15_Witness ==
    /\ SettledOnJsonSuccess
    /\ rq.method = "generate"
    /\ rq.fetched.resp.json = Object([detail |-> PString(Str_Quota503)])
    /\ rq.settled.ok
    /\ rq.settled.val = rq.fetched.resp.json

\* The client in use, had it been constructed with the given base URL.
ClientWithBase(b) == NewClient(client.variant, b, client.apiKey)

\* C16: construction strips exactly one trailing "/": a client constructed
\* with "https://x/" and one constructed with "https://x" send every
\* operation to the same URL, the base URL followed by the endpoint path.
C16_TrailingSlashStripped ==
    rq.pc # "ready" =>
        LET plain == ClientWithBase(Str_BaseUrl)
            slashed == ClientWithBase(Str_BaseUrl \o <<"/">>)
            twice == ClientWithBase(Str_BaseUrl \o <<"/", "/">>)
            endpoint == Plan(client, rq.method, rq.args).endpoint
        IN /\ Sent(plain, rq.method, rq.args) = Sent(slashed, rq.method, rq.args)
           /\ client \in {plain, slashed} => rq.sent.url = Str_BaseUrl \o endpoint
           /\ twice.baseUrl = Str_BaseUrl \o <<"/">>
           /\ client = twice => rq.sent.url = Str_BaseUrl \o <<"/">> \o endpoint

\* C16 witness: the client is the one "https://x/" constructs, and its
\* generate call went to https://x/generate.
C16_Witness ==
    /\ Called("generate")
    /\ client = ClientWithBase(Str_BaseUrl \o <<"/">>)
    /\ rq.sent.url = Str_BaseUrl \o Path_Generate

\* The arguments with which a shorthand is generate: its fixed format (for
\* getPrompt the format given) and promptOnly (true for getPrompt only).
AsGenerateArgs(m, a) ==
    [a EXCEPT !.format = CASE m = "generateArticle" -> PString(Str_Article)
                           [] m = "generateSocialPost" -> PString(Str_SocialMedia)
                           [] m = "generateClassOutline" -> PString(Str_ClassOutline)
                           [] m = "generateReflection" -> PString(Str_ShortReflection)
                           [] OTHER -> a.format,
              !.promptOnly = IF m = "getPrompt" THEN PBool(TRUE) ELSE PUndefined]

\* C17: each format shorthand, and getPrompt, sends the request generate
\* sends with the shorthand's fixed format (getPrompt: promptOnly = true),
\* and settles as generate settles, projected to the content field; a
\* failure of generate is the failure of the shorthand.
C17_ShorthandIsGenerateContent ==
    (rq.pc # "ready" /\ rq.method \in Projecting) =>
        LET g == AsGenerateArgs(rq.method, rq.args) IN
        /\ rq.sent = Sent(client, "generate", g)
        /\ rq.pc = "settled" =>
              LET outcome == MethodSettle("generate", rq.fetched) IN
              /\ rq.settled = ProjectContent(outcome)
              /\ ~outcome.ok => rq.settled = outcome

\* C17 witness: generateSocialPost with a context sent format social_media
\* and resolved with the content string of the response.
C17_Witness ==
    /\ rq.pc = "settled"
    /\ rq.method = "generateSocialPost"
    /\ rq.args.context = PString(Str_Ctx)
    /\ rq.sent.body.format = PString(Str_SocialMedia)
    /\ rq.sent.body.additional_context = PString(Str_Ctx)
    /\ rq.settled = Resolved(Lift(PString(Str_C1)))

(***************************************************************************)
(* Liveness of the Lifecycle Adapter.  The premise of the claim is that    *)
(* every outstanding network call eventually resolves or rejects: weak     *)
(* fairness of the settling of each tracked call.  The calls of a run are  *)
(* bounded, so eventually no further call is started.                      *)
(***************************************************************************)
\* Tracked call c settles, one way or the other.
Settle(c) == Respond(c) \/ TransportFail(c)

\* One wrapper of each shape: generate, getPrompt (returns the content), a
\* shorthand built on the hook's generate, and one that stores nothing.
LiveKinds == {"generate", "getPrompt", "generateArticle", "getVoiceProfile"}

NextLive ==
    \/ \E c \in Calls, k \in LiveKinds : Begin(c, k)
    \/ \E c \in Calls : Settle(c)
    \/ clearError
    \/ clearContent

SpecLive == Init /\ [][NextLive]_vars /\ \A c \in Calls : WF_vars(Settle(c))

\* C18: whenever isLoading is true it eventually becomes false, whether the
\* calls succeed or fail and also when several overlap; and isLoading is
\* never true once every started call has settled.
C18_LoadingEnds ==
    /\ isLoading ~> ~isLoading
    /\ [](InFlight = {} => ~isLoading)

\* C18 witness: calls overlapped, every one of them has settled, some by
\* failing and some by succeeding, and isLoading is false.
C18_Witness ==
    /\ Cardinality(atStart) >= 2
    /\ InFlight = {}
    /\ \E c \in atStart : pc[c] = "rejected"
    /\ \E c \in atStart : pc[c] = "resolved"
    /\ ~isLoading

====
